---- MODULE Spec2Model ----
(***************************************************************************)
(* A model of the two Streamlit applications of this repository:           *)
(*   - the Expense Tracker (src/expense_tracker): the Rule Engine          *)
(*     (utils/rules.py), the amounts of normalize_dataframe (utils/io.py), *)
(*     the hybrid categorization pipeline and the interactions of app.py;  *)
(*   - the Sales Dashboard (src/app.py): its filters and KPIs.             *)
(*                                                                         *)
(* Python objects are modelled by value, except the pattern lists of the   *)
(* module-level DEFAULT_RULES table: load_rules copies the table           *)
(* shallowly, so an engine's entry for a built-in category is the very     *)
(* list object of the table.  Such an entry is modelled by ref = "default" *)
(* and read through the variable default_rules.                            *)
(***************************************************************************)
EXTENDS Integers, Sequences, FiniteSets, TLC

VARIABLES
    default_rules,   \* the module global DEFAULT_RULES of the running process
    rules_file,      \* the overlay file data/rules.json
    engines,         \* per session: st.session_state.rules (a RuleEngine)
    last_rule,       \* the last Rule Engine operation (history)
    adds,            \* add_rule calls so far that got past the empty-input check
    transactions,    \* st.session_state.transactions of session "A"
    model,           \* st.session_state.model of session "A"
    model_file,      \* models/text_clf.joblib
    seed,            \* load_seed_data(), cached for the process
    uploaded,        \* the value of the file_uploader widget of session "A"
    last,            \* what the last interaction of session "A" did (history)
    canonical,       \* Sales Dashboard: the rows of data/sales.csv
    today,           \* Sales Dashboard: the day of the run (pd.Timestamp.today())
    sales,           \* Sales Dashboard: the widgets' values and what the last run computed
    raw,             \* io: the header and one row of a file read by load_csv
    normalized       \* io: what normalize_dataframe gave for the row's amount

rvars == <<default_rules, rules_file, engines, last_rule, adds>>
avars == <<transactions, model, model_file, seed, uploaded, last>>
svars == <<canonical, today, sales>>
nvars == <<raw, normalized>>
vars == <<default_rules, rules_file, engines, last_rule, adds,
          transactions, model, model_file, seed, uploaded, last,
          canonical, today, sales, raw, normalized>>

(***************************************************************************)
(* Bounds                                                                  *)
(***************************************************************************)
MaxAdds == 2             \* add_rule calls that get past the empty-input check

\* two browser sessions served by one process
Sessions == {"A", "B"}

NONE == "<None>"        \* Python's None / a missing (NaN) cell

(***************************************************************************)
(* Text helpers.  Strings are atomic in TLC, so str.strip() and            *)
(* normalize_text are given on the texts the model uses.                   *)
(***************************************************************************)
\* str.strip (rules.py:183-184, app.py:72)
strip(s) ==
    CASE s = " " -> ""
      [] s = " Pets " -> "Pets"
      [] s = " Transport" -> "Transport"
      [] s = "petco " -> "petco"
      [] OTHER -> s

\* normalize_text (rules.py:123-129): None -> "", lower, strip, collapse runs
normalize_text(text) ==
    CASE text = NONE -> ""
      [] text = "" -> ""
      [] text = "  " -> ""
      [] text = "UBER TRIP 9Q8W2" -> "uber trip 9q8w2"
      [] text = "TRADER JOES #123" -> "trader joes #123"
      [] text = "PETCO STORE #5" -> "petco store #5"
      [] text = "ACME PAYROLL" -> "acme payroll"
      [] text = "City  Gas" -> "city gas"
      [] text = "SUBWAY STATION 5" -> "subway station 5"
      [] text = "CORNER SHOP" -> "corner shop"
      [] OTHER -> text

Descriptions ==
    {NONE, "", "  ", "UBER TRIP 9Q8W2", "TRADER JOES #123", "PETCO STORE #5",
     "ACME PAYROLL", "City  Gas", "SUBWAY STATION 5", "CORNER SHOP"}

(***************************************************************************)
(* The built-in rule table (rules.py:9-120), in insertion order.  Each     *)
(* category keeps the patterns that match a text of Descriptions, in the   *)
(* order of the source, and at least one pattern.                          *)
(***************************************************************************)
DEFAULT_RULES ==
    << [cat |-> "Groceries",     pats |-> <<"\\btrader\\s*joe'?s?\\b", "\\bsafeway\\b">>],
       [cat |-> "Restaurants",   pats |-> <<"\\bsubway\\b", "\\bpizza\\b">>],
       [cat |-> "Transport",     pats |-> <<"\\buber\\b", "\\bstation\\s*gas\\b",
                                            "\\bgas\\b", "\\bsubway\\s*station\\b">>],
       [cat |-> "Housing",       pats |-> <<"\\brent\\b">>],
       [cat |-> "Utilities",     pats |-> <<"\\belectric\\b", "\\bgas\\b">>],
       [cat |-> "Entertainment", pats |-> <<"\\bnetflix\\b">>],
       [cat |-> "Shopping",      pats |-> <<"\\bamzn|amazon\\b">>],
       [cat |-> "Health",        pats |-> <<"\\bcvs\\b">>],
       [cat |-> "Travel",        pats |-> <<"\\bdelta\\b">>],
       [cat |-> "Income",        pats |-> <<"\\bpayroll\\b">>],
       [cat |-> "Fees",          pats |-> <<"\\boverdraft\\b">> ] >>

DefaultCats == {DEFAULT_RULES[i].cat : i \in 1..Len(DEFAULT_RULES)}

\* DEFAULT_RULES as the process sees it at import time: category -> list
PristineDefaults ==
    [c \in DefaultCats |->
        DEFAULT_RULES[CHOOSE i \in 1..Len(DEFAULT_RULES) : DEFAULT_RULES[i].cat = c].pats]

\* re.compile(pattern) (rules.py:174): FALSE when it raises re.error
compiles(pattern) == pattern \notin {"(", "[a"}

\* pattern.search(text) with re.IGNORECASE (rules.py:199), on normalized texts
search(pattern, text) ==
    CASE pattern = "\\btrader\\s*joe'?s?\\b" -> text = "trader joes #123"
      [] pattern = "\\bsubway\\b" -> text = "subway station 5"
      [] pattern = "\\bsubway\\s*station\\b" -> text = "subway station 5"
      [] pattern = "\\buber\\b" -> text = "uber trip 9q8w2"
      [] pattern = "\\bgas\\b" -> text = "city gas"
      [] pattern = "\\bpayroll\\b" -> text = "acme payroll"
      [] pattern = "petco" -> text = "petco store #5"
      [] pattern = "acme" -> text = "acme payroll"
      [] pattern = "shop" -> text = "corner shop"
      [] OTHER -> FALSE

(***************************************************************************)
(* Sequence helpers                                                        *)
(***************************************************************************)
Range(s) == {s[i] : i \in 1..Len(s)}

RECURSIVE Concat(_)
\* the concatenation of a sequence of sequences
Concat(ss) == IF ss = <<>> THEN <<>> ELSE Head(ss) \o Concat(Tail(ss))

\* the index of the entry of dict d (a sequence of entries) with key k, or 0
KeyIndex(d, k) ==
    IF \E i \in 1..Len(d) : d[i].cat = k
    THEN CHOOSE i \in 1..Len(d) : d[i].cat = k
    ELSE 0

Keys(d) == {d[i].cat : i \in 1..Len(d)}

\* dict[k] = v: an existing key keeps its place, a new key goes last
DictSet(d, e) ==
    IF KeyIndex(d, e.cat) = 0 THEN Append(d, e)
    ELSE [d EXCEPT ![KeyIndex(d, e.cat)] = e]

RECURSIVE DictUpdate(_, _)
\* dict.update(other): the entries of other in their order
DictUpdate(d, other) ==
    IF other = <<>> THEN d
    ELSE DictUpdate(DictSet(d, Head(other)), Tail(other))

(***************************************************************************)
(* The Rule Engine (rules.py:132-201).                                     *)
(* An engine's rules is a dict: a sequence of entries                      *)
(*   [cat, ref, list], ref = "default": the value is the list object       *)
(*   DEFAULT_RULES[cat] itself; ref = "own": the value is list.            *)
(***************************************************************************)
NoEngine == [made |-> FALSE, rules |-> <<>>, compiled_rules |-> <<>>]

\* no Rule Engine operation yet (history)
NoRuleOp == [op |-> "none", s |-> "", category |-> "", pattern |-> "", ignored |-> FALSE]

\* the patterns an entry of an engine's rules holds, given the global table
ListOf(defs, e) == IF e.ref = "default" THEN defs[e.cat] ELSE e.list

\* self.rules as plain data: category -> patterns
RulesView(defs, rules) ==
    [c \in Keys(rules) |-> ListOf(defs, rules[KeyIndex(rules, c)])]

\* load_rules (rules.py:141-153) up to self.rules = rules
load_rules(file) ==
    LET base == [i \in 1..Len(DEFAULT_RULES) |->
                    [cat |-> DEFAULT_RULES[i].cat, ref |-> "default", list |-> <<>>]]
        overlay == [i \in 1..Len(file.data) |->
                    [cat |-> file.data[i].cat, ref |-> "own", list |-> file.data[i].list]]
    IN  IF file.kind = "dict" THEN DictUpdate(base, overlay) ELSE base

\* list.sort(key=len(pattern), reverse=True) is stable: x goes before the first
\* element shorter than it
InsertByLen(sorted, x) ==
    LET shorter == {i \in 1..Len(sorted) : Len(sorted[i].pattern) < Len(x.pattern)}
        at == IF shorter = {} THEN Len(sorted) + 1
              ELSE CHOOSE i \in shorter : \A j \in shorter : i <= j
    IN  SubSeq(sorted, 1, at - 1) \o <<x>> \o SubSeq(sorted, at, Len(sorted))

RECURSIVE SortByLen(_)
SortByLen(s) ==
    IF s = <<>> THEN <<>>
    ELSE InsertByLen(SortByLen(SubSeq(s, 1, Len(s) - 1)), s[Len(s)])

\* _compile (rules.py:169-180)
compile(defs, rules) ==
    LET perCat == [i \in 1..Len(rules) |->
                    LET l == ListOf(defs, rules[i])
                    IN  [j \in 1..Len(l) |-> [pattern |-> l[j], category |-> rules[i].cat]]]
        all == Concat(perCat)
        ok(x) == compiles(x.pattern)
    IN  SortByLen(SelectSeq(all, ok))

\* RuleEngine.__init__ (rules.py:133-139, 154)
RuleEngine(defs, file) ==
    LET rules == load_rules(file)
    IN  [made |-> TRUE, rules |-> rules, compiled_rules |-> compile(defs, rules)]

\* categorize (rules.py:194-201): NONE for no match
categorize(engine, description) ==
    LET text == normalize_text(description)
        cr == engine.compiled_rules
        hits == {i \in 1..Len(cr) : search(cr[i].pattern, text)}
    IN  IF text = "" THEN NONE
        ELSE IF hits = {} THEN NONE
        ELSE cr[CHOOSE i \in hits : \A j \in hits : i <= j].category

\* save_rules writing every pattern of every category
save_rules_unfiltered(defs, rules) ==
    LET custom == [i \in 1..Len(rules) |->
                      [cat |-> rules[i].cat, list |-> ListOf(defs, rules[i])]]
        nonEmpty(c) == c.list # <<>>
    IN  [kind |-> "dict", data |-> SelectSeq(custom, nonEmpty)]

\* save_rules (rules.py:156-167): the dict written to the overlay file
save_rules(defs, rules) ==
    LET extra(e) ==
            LET default_patterns == IF e.cat \in DOMAIN defs THEN Range(defs[e.cat]) ELSE {}
                notDefault(p) == p \notin default_patterns
            IN  SelectSeq(ListOf(defs, e), notDefault)
        custom == [i \in 1..Len(rules) |-> [cat |-> rules[i].cat, list |-> extra(rules[i])]]
        nonEmpty(c) == c.list # <<>>
    IN  [kind |-> "dict", data |-> SelectSeq(custom, nonEmpty)]

\* add_rule (rules.py:182-192) on the stripped, non-empty category and pattern:
\* the new DEFAULT_RULES, self.rules
add_rule_rules(defs, rules, category, pattern) ==
    LET withKey == IF category \in Keys(rules) THEN rules
                   ELSE Append(rules, [cat |-> category, ref |-> "own", list |-> <<>>])
        k == KeyIndex(withKey, category)
        e == withKey[k]
        dup == pattern \in Range(ListOf(defs, e))
    IN  IF dup \/ e.ref = "default" THEN withKey
        ELSE [withKey EXCEPT ![k].list = Append(@, pattern)]

add_rule_defaults(defs, rules, category, pattern) ==
    LET k == KeyIndex(rules, category)
    IN  IF k # 0 /\ rules[k].ref = "default" /\ pattern \notin Range(defs[category])
        THEN [defs EXCEPT ![category] = Append(@, pattern)]
        ELSE defs

\* the overlay file when it does not exist, and when json.load fails or gives no dict
AbsentFile == [kind |-> "absent", data |-> <<>>]
MalformedFile == [kind |-> "malformed", data |-> <<>>]

(***************************************************************************)
(* The Expense Tracker (src/expense_tracker/app.py).  A table is a         *)
(* sequence of rows [date, description, category]; the position of a row   *)
(* is its index label (load_csv gives a RangeIndex).  date 0 is NaT.       *)
(***************************************************************************)
\* st.session_state.model and the model file hold None or a fitted Pipeline;
\* the pipeline never reads what a stored model predicts (app.py:57, 64)
NoModel == [trained |-> FALSE]
FittedModel == [trained |-> TRUE]

EmptyTable == <<>>

\* str(x) as Series.astype(str) gives it: a missing cell becomes "nan"
astype_str(x) == IF x = NONE THEN "nan" ELSE x

\* the uploaded files: raw CSV content
\*   readable: pd.read_csv succeeds; has_category: a category column resolves
CsvFiles ==
    [ bad   |-> [readable |-> FALSE, has_category |-> FALSE, rows |-> <<>>],
      nocat |-> [readable |-> TRUE, has_category |-> FALSE,
                 rows |-> << [date |-> 1, description |-> "UBER TRIP 9Q8W2", category |-> NONE],
                             [date |-> 2, description |-> "PETCO STORE #5", category |-> NONE] >>],
      cat   |-> [readable |-> TRUE, has_category |-> TRUE,
                 rows |-> << [date |-> 0, description |-> "ACME PAYROLL", category |-> NONE] >>] ]

NoUpload == "none"
UploadNames == {"bad", "nocat", "cat"}

\* normalize_dataframe (io.py:81-166), the date, description and category columns
normalize_dataframe(file) ==
    [i \in 1..Len(file.rows) |->
        [date |-> file.rows[i].date,
         description |-> astype_str(file.rows[i].description),
         category |-> IF file.has_category THEN astype_str(file.rows[i].category) ELSE NONE]]

\* load_csv (io.py:169-171); load_csv_raises: pd.read_csv raises
load_csv_raises(name) == ~CsvFiles[name].readable
load_csv(name) == normalize_dataframe(CsvFiles[name])

\* apply_rules (app.py:39-40): engine.categorize(t) or None
apply_rules(df, engine) ==
    [i \in 1..Len(df) |->
        LET c == categorize(engine, df[i].description)
        IN  IF c = "" THEN NONE ELSE c]

\* rule_step with the rules' category written over an explicit one
rule_step_overwrite(df, engine) ==
    LET rule_cats == apply_rules(df, engine)
    IN  [i \in 1..Len(df) |->
            [df[i] EXCEPT !.category = IF rule_cats[i] # NONE THEN rule_cats[i]
                                       ELSE df[i].category]]

\* src/app.py:47-48: out["category"].where(out["category"].notna(), rule_cats)
rule_step(df, engine) ==
    LET rule_cats == apply_rules(df, engine)
    IN  [i \in 1..Len(df) |->
            [df[i] EXCEPT !.category = IF df[i].category # NONE THEN df[i].category
                                       ELSE rule_cats[i]]]

\* dropna(subset=["category", "description"])
dropna(df) ==
    LET has(r) == r.category # NONE /\ r.description # NONE
    IN  SelectSeq(df, has)

\* src/app.py:51-55: the labeled frame, as its rows
labeled_frame(out, seed_df) ==
    (IF seed_df # EmptyTable THEN dropna(seed_df) ELSE <<>>) \o dropna(out)

\* labeled["category"].nunique()
nunique(labeled) == Cardinality({labeled[i].category : i \in 1..Len(labeled)})

\* src/app.py:72: rows the model predicts for
mask_uncat(out) ==
    {i \in 1..Len(out) : out[i].category = NONE \/ strip(astype_str(out[i].category)) = ""}

\* src/app.py:59: the pipeline returns before any training
no_training(labeled) == labeled = <<>> \/ nunique(labeled) < 2

\* early_return without st.session_state.model = None
early_return_keeps_model(out) ==
    [raised |-> FALSE, trained |-> FALSE, model_set |-> FALSE,
     model |-> NoModel, saved |-> FALSE, out |-> out]

\* src/app.py:59-61: st.session_state.model = None; return out
early_return(out) ==
    [raised |-> FALSE, trained |-> FALSE, model_set |-> TRUE,
     model |-> NoModel, saved |-> FALSE, out |-> out]

\* apply_hybrid_categorization (app.py:43-77): every outcome of one call.
\*   train_model and predict_categories are scikit-learn's: train_model raises
\*   (too few rows of a class for the stratified split, no term left in the
\*   vocabulary) or returns a model of the labels it was given; each prediction
\*   is one of the model's classes.  save_model writes the file (the disk is
\*   taken to be writable).
\*   raised: the call raised; trained: train_model returned; saved: save_model
\*   wrote the file; model: st.session_state.model after the call when it was
\*   assigned (model_set); input_after: the caller's table after the call (out
\*   is a copy, app.py:44).
apply_hybrid_categorization(df, seed_df, engine) ==
    LET after_rules == rule_step(df, engine)
        labeled == labeled_frame(after_rules, seed_df)
        classes == {labeled[i].category : i \in 1..Len(labeled)}
        trace == [input |-> df, input_after |-> df, after_rules |-> after_rules]
        mask == mask_uncat(after_rules)
    IN  IF no_training(labeled)
        THEN { trace @@ early_return(after_rules) }
        ELSE { trace @@ [raised |-> TRUE, trained |-> FALSE, model_set |-> FALSE,
                         model |-> NoModel, saved |-> FALSE, out |-> after_rules] }
             \cup
             { trace @@ [raised |-> FALSE, trained |-> TRUE, model_set |-> TRUE,
                         model |-> FittedModel,
                         saved |-> TRUE,
                         out |-> [i \in 1..Len(after_rules) |->
                                    IF i \in mask
                                    THEN [after_rules[i] EXCEPT !.category = preds[i]]
                                    ELSE after_rules[i]]] :
                 preds \in [mask -> classes] }

(***************************************************************************)
(* render_reports (app.py:115-169): the date filter, the editable table    *)
(* and the merge of "Apply edits and re-train model".                      *)
(***************************************************************************)
Dates == {1, 2}

\* the date range the two date_input widgets hold
FilterInputs == [start : Dates, end : Dates]

\* src/app.py:127-129: the index labels of dff, in order (a NaT date is in no range)
filter_index(df, range) ==
    LET inRange(i) == df[i].date # 0 /\ df[i].date >= range.start /\ df[i].date <= range.end
    IN  SelectSeq([i \in 1..Len(df) |-> i], inRange)

\* src/app.py:157-159: the table the editor shows: the rows of dff; idx is the
\* index label of the row (0 for a row the user adds)
editable(df, index) ==
    [k \in 1..Len(index) |-> [idx |-> index[k], category |-> df[index[k]].category]]

EditCategories == {NONE, "", " ", "Income"}

RemoveAt(t, k) == SubSeq(t, 1, k - 1) \o SubSeq(t, k + 1, Len(t))

\* what st.data_editor(num_rows="dynamic") can return for a shown table: the
\* table itself, one category changed, one row removed, one row added, one row
\* removed and one added
EditedTables(shown) ==
    LET added == {[idx |-> 0, category |-> NONE]}
    IN  {shown}
        \cup {[shown EXCEPT ![k].category = c] : k \in 1..Len(shown), c \in EditCategories}
        \cup {RemoveAt(shown, k) : k \in 1..Len(shown)}
        \cup {Append(shown, a) : a \in added}
        \cup {Append(RemoveAt(shown, k), a) : k \in 1..Len(shown), a \in added}

\* app.py:163-164: df_update.loc[dff.index, "category"] = edited["category"].values
\*   as many values as labels: set by position; values for no label: nothing
\*   is set; otherwise pandas raises ValueError ("Must have equal len keys and
\*   value when setting with an iterable").
merge_edits(df, index, values) ==
    LET set(vals) ==
            [i \in 1..Len(df) |->
                IF \E k \in 1..Len(index) : index[k] = i
                THEN [df[i] EXCEPT !.category =
                         vals[CHOOSE k \in 1..Len(index) : index[k] = i]]
                ELSE df[i]]
    IN  IF Len(values) = Len(index) THEN [raised |-> FALSE, df_update |-> set(values)]
        ELSE IF Len(index) = 0 THEN [raised |-> FALSE, df_update |-> df]
        ELSE [raised |-> TRUE, df_update |-> df]

(***************************************************************************)
(* Transaction amounts (utils/io.py).  A header is the column's name as    *)
(* the file has it; a cell is a number, a text that is no number, or       *)
(* missing; a text that is searched is a sequence of characters.           *)
(***************************************************************************)
\* io.py:28-36: the candidate names, in order
AMOUNT_CANDIDATES == <<"amount", "transaction amount", "value">>
DEBIT_CANDIDATES == <<"debit", "withdrawal">>
CREDIT_CANDIDATES == <<"credit", "deposit">>
TYPE_CANDIDATES == <<"type", "transaction type">>

\* the headers of the files, and c.lower().strip() of each (io.py:44)
Headers == {"Amount", " VALUE ", "Debit", "Deposit", "Type"}
lower_strip(c) ==
    CASE c = "Amount" -> "amount"
      [] c = " VALUE " -> "value"
      [] c = "Debit" -> "debit"
      [] c = "Deposit" -> "deposit"
      [] c = "Type" -> "type"

\* io.py:46-50: the column of the first candidate the header has, or None
pick_column(candidates, columns) ==
    LET found == {k \in 1..Len(candidates) :
                    \E c \in columns : lower_strip(c) = candidates[k]}
    IN  IF found = {} THEN NONE
        ELSE LET k == CHOOSE j \in found : \A o \in found : j <= o
             IN  CHOOSE c \in columns : lower_strip(c) = candidates[k]

\* io.py:41-60, the four fields the amount depends on
canonicalize_columns(columns) ==
    [amount |-> pick_column(AMOUNT_CANDIDATES, columns),
     debit |-> pick_column(DEBIT_CANDIDATES, columns),
     credit |-> pick_column(CREDIT_CANDIDATES, columns),
     type |-> pick_column(TYPE_CANDIDATES, columns)]

\* cells
Num(v) == [kind |-> "num", v |-> v, text |-> <<>>]
Text(t) == [kind |-> "text", v |-> 0, text |-> t]
NaNCell == [kind |-> "nan", v |-> 0, text |-> <<>>]

\* a float: a number or NaN
NaN == [nan |-> TRUE, v |-> 0]
Float(v) == [nan |-> FALSE, v |-> v]

\* pd.to_numeric(..., errors="coerce") of a cell (io.py:108, 110, 111)
to_numeric(cell) == IF cell.kind = "num" THEN Float(cell.v) ELSE NaN

\* .fillna(0) (io.py:113, 114, 118)
fillna(x) == IF x.nan THEN Float(0) ELSE x

\* str.lower()
UpperCase == <<"A", "B", "C", "D", "E", "F", "G", "H", "I", "J", "K", "L", "M",
               "N", "O", "P", "Q", "R", "S", "T", "U", "V", "W", "X", "Y", "Z">>
LowerCase == <<"a", "b", "c", "d", "e", "f", "g", "h", "i", "j", "k", "l", "m",
               "n", "o", "p", "q", "r", "s", "t", "u", "v", "w", "x", "y", "z">>
lower_char(c) ==
    IF \E k \in 1..Len(UpperCase) : UpperCase[k] = c
    THEN LowerCase[CHOOSE k \in 1..Len(UpperCase) : UpperCase[k] = c]
    ELSE c
lower(t) == [k \in 1..Len(t) |-> lower_char(t[k])]

\* the Python test: word in t
contains(t, word) ==
    \E k \in 1..(Len(t) - Len(word) + 1) : SubSeq(t, k, k + Len(word) - 1) = word

\* str(cell).lower() of a type cell (io.py:122); a missing cell reads "nan"
type_text(cell) ==
    IF cell.kind = "nan" THEN <<"n", "a", "n">> ELSE lower(cell.text)

\* io.py:105-118: the derived amount of a row; with neither an amount nor a
\* debit nor a credit column, pd.to_numeric(0.0) is the float itself, which
\* has no fillna: AttributeError
derive_raises(colmap) ==
    colmap.amount = NONE /\ colmap.debit = NONE /\ colmap.credit = NONE
derive_amount(colmap, row) ==
    IF colmap.amount # NONE
    THEN fillna(to_numeric(row[colmap.amount])).v
    ELSE LET debit_filled == IF colmap.debit # NONE
                             THEN fillna(to_numeric(row[colmap.debit])).v ELSE 0
             credit_filled == IF colmap.credit # NONE
                              THEN fillna(to_numeric(row[colmap.credit])).v ELSE 0
         IN  credit_filled - debit_filled

\* io.py:121-124: the type column of the normalized frame ("" stands for
\* None, which normalize_sign reads as "")
type_column(colmap, row) ==
    IF colmap.type # NONE THEN type_text(row[colmap.type]) ELSE <<>>

abs(x) == IF x < 0 THEN -x ELSE x

\* io.py:146-156
normalize_sign(amt, t) ==
    IF contains(t, <<"d", "e", "b", "i", "t">>)
          \/ contains(t, <<"w", "i", "t", "h", "d", "r", "a", "w">>)
          \/ contains(t, <<"p", "u", "r", "c", "h", "a", "s", "e">>)
    THEN -abs(amt)
    ELSE IF contains(t, <<"c", "r", "e", "d", "i", "t">>)
               \/ contains(t, <<"d", "e", "p", "o", "s", "i", "t">>)
               \/ contains(t, <<"i", "n", "c", "o", "m", "e">>)
               \/ contains(t, <<"r", "e", "f", "u", "n", "d">>)
         THEN abs(amt)
         ELSE amt

\* io.py:81-166, the amount of one row: normalize_dataframe raises, or
\* gives the row this amount
NotNormalized == [done |-> FALSE, raised |-> FALSE, amount |-> 0]
normalize_amount(columns, row) ==
    LET colmap == canonicalize_columns(columns)
    IN  IF derive_raises(colmap)
        THEN [done |-> TRUE, raised |-> TRUE, amount |-> 0]
        ELSE [done |-> TRUE, raised |-> FALSE,
              amount |-> normalize_sign(derive_amount(colmap, row),
                                        type_column(colmap, row))]

\* the cells a row has under each header
CellsOf(c) ==
    CASE c = "Amount" -> {Num(50), Num(-50), Text(<<"n", "/", "a">>), NaNCell}
      [] c = " VALUE " -> {Num(7)}
      [] c = "Debit" -> {Num(20), Text(<<"x">>), NaNCell}
      [] c = "Deposit" -> {Num(0), Num(5), NaNCell}
      [] c = "Type" -> {Text(<<"D", "e", "b", "i", "t">>),
                        Text(<<"A", "T", "M", " ", "W", "i", "t", "h", "d", "r", "a", "w", "a", "l">>),
                        Text(<<"P", "O", "S", " ", "P", "U", "R", "C", "H", "A", "S", "E">>),
                        Text(<<"c", "r", "e", "d", "i", "t">>),
                        Text(<<"D", "e", "p", "o", "s", "i", "t">>),
                        Text(<<"I", "n", "c", "o", "m", "e">>),
                        Text(<<"R", "E", "F", "U", "N", "D">>),
                        Text(<<"c", "r", "e", "d", "i", "t", " ", "p", "u", "r", "c", "h", "a", "s", "e">>),
                        Text(<<"t", "r", "a", "n", "s", "f", "e", "r">>),
                        NaNCell}
RawRows(columns) == {row \in [columns -> UNION {CellsOf(c) : c \in Headers}] :
                        \A c \in columns : row[c] \in CellsOf(c)}
NoRawRow == [columns |-> {}, row |-> <<>>]

(***************************************************************************)
(* Sales Dashboard (src/app.py): one script, run from top to bottom on     *)
(* every interaction.  Dates are day numbers.                              *)
(***************************************************************************)
NoFile == "none"
SalesColumns == {"order_id", "date", "product", "channel", "quantity", "unit_price", "revenue"}

\* one row of a CSV; a column the file does not have is never read
SalesRow(id, d, p, c, q, u, r) ==
    [order_id |-> id, date |-> d, product |-> p, channel |-> c,
     quantity |-> q, unit_price |-> u, revenue |-> r]

\* src/app.py:16-37: data/sales.csv as bootstrap_mock_data writes it (revenue =
\* unit_price * quantity, order_id 1..n, sorted by date), or a replacement
CanonicalFiles ==
    {<<SalesRow("1", 1, "Basic", "Online", 2, 19, 38),
       SalesRow("2", 3, "Pro", "Phone", 1, 79, 79),
       SalesRow("3", 3, "Basic", "Online", 1, 19, 19)>>,
     <<SalesRow("1", 2, "Pro", "Online", 1, 79, 79),
       SalesRow("2", 2, "Basic", "Online", 1, 19, 19)>>}

\* the day of the run, never before the newest bootstrap row
Todays == {4, 9}

\* CSVs a user uploads: the columns present and the rows
SalesUploads ==
    [nodate |-> [cols |-> {"product", "channel", "revenue"},
                 rows |-> <<SalesRow(NONE, 0, "Basic", "Online", 0, 0, 10)>>],
     norev  |-> [cols |-> {"date", "product", "channel", "quantity"},
                 rows |-> <<SalesRow(NONE, 1, "Basic", "Online", 2, 0, 0)>>],
     derive |-> [cols |-> {"date", "product", "channel", "quantity", "unit_price"},
                 rows |-> <<SalesRow(NONE, 1, "Basic", "Online", 2, 19, 0),
                            SalesRow(NONE, 2, "Pro", "Online", 1, 79, 0)>>],
     dup    |-> [cols |-> SalesColumns,
                 rows |-> <<SalesRow("7", 1, "Basic", "Online", 1, 50, 50),
                            SalesRow("7", 1, "Pro", "Online", 1, 50, 50),
                            SalesRow(NONE, 2, "Basic", "Phone", 1, 20, 20)>>]]
SalesUploadNames == {"nodate", "norev", "derive", "dup"}

\* src/app.py:58-71: the table of the run, or st.stop() after st.error
source_data(up, canon) ==
    IF up = NoFile
    THEN [ok |-> TRUE, cols |-> SalesColumns, df |-> canon]
    ELSE LET file == SalesUploads[up]
         IN  IF "date" \notin file.cols
             THEN [ok |-> FALSE, cols |-> file.cols, df |-> <<>>]
             ELSE IF "revenue" \notin file.cols
                  THEN IF {"quantity", "unit_price"} \subseteq file.cols
                       THEN [ok |-> TRUE, cols |-> file.cols \cup {"revenue"},
                             df |-> [i \in 1..Len(file.rows) |->
                                       [file.rows[i] EXCEPT !.revenue =
                                          file.rows[i].quantity * file.rows[i].unit_price]]]
                       ELSE [ok |-> FALSE, cols |-> file.cols, df |-> <<>>]
                  ELSE [ok |-> TRUE, cols |-> file.cols, df |-> file.rows]

\* src/app.py:74-76: order_id = 1..len(df) when the column is missing
ensure_order_id(cols, df) ==
    IF "order_id" \notin cols
    THEN [i \in 1..Len(df) |-> [df[i] EXCEPT !.order_id = ToString(i)]]
    ELSE df

\* src/app.py:81: df["date"].min(), df["date"].max()
min_date(df) == CHOOSE d \in {df[i].date : i \in 1..Len(df)} :
                    \A i \in 1..Len(df) : d <= df[i].date
max_date(df) == CHOOSE d \in {df[i].date : i \in 1..Len(df)} :
                    \A i \in 1..Len(df) : d >= df[i].date

\* src/app.py:82: what st.date_input in range mode returns: the two dates of a
\* finished selection (in order), one date while the second is not picked
\* yet, or nothing; every date lies between min_value and max_value
DateInputs(lo, hi) ==
    {<<>>} \cup {<<a>> : a \in lo..hi}
           \cup {r \in {<<a, b>> : a \in lo..hi, b \in lo..hi} : r[1] <= r[2]}

\* src/app.py:83-86: a tuple is indexed at 0 and 1 (IndexError when shorter)
range_raises(date_range) == Len(date_range) < 2
range_start(date_range) == date_range[1]
range_end(date_range) == date_range[2]

\* src/app.py:89-92: the presets and int(range_choice.split()[1])
RangeChoices == {"All", "Last 7 days", "Last 30 days", "Last 90 days"}
preset_days(range_choice) ==
    CASE range_choice = "Last 7 days" -> 7
      [] range_choice = "Last 30 days" -> 30
      [] range_choice = "Last 90 days" -> 90
preset_start(start_d, range_choice, now) ==
    IF range_choice # "All" THEN now - preset_days(range_choice) ELSE start_d

\* src/app.py:94-97: the options of the two multiselects
product_options(df) == {df[i].product : i \in 1..Len(df)}
channel_options(df) == {df[i].channel : i \in 1..Len(df)}

\* src/app.py:99-104: df.loc[mask]
SelectRows(df, keep) ==
    LET F[i \in 0..Len(df)] ==
            IF i = 0 THEN <<>>
            ELSE IF i \in keep THEN Append(F[i - 1], df[i]) ELSE F[i - 1]
    IN  F[Len(df)]
filter_sales(df, start_d, end_d, prod_sel, chan_sel) ==
    SelectRows(df, {i \in 1..Len(df) :
                      /\ start_d <= df[i].date /\ df[i].date <= end_d
                      /\ df[i].product \in prod_sel
                      /\ df[i].channel \in chan_sel})

\* src/app.py:119: float(fdf["revenue"].sum()) if not fdf.empty else 0.0
revenue_sum(rows) ==
    LET F[i \in 0..Len(rows)] == IF i = 0 THEN 0 ELSE F[i - 1] + rows[i].revenue
    IN  F[Len(rows)]
total_rev_kpi(fdf) == IF fdf # <<>> THEN revenue_sum(fdf) ELSE 0

\* orders counted as rows of the filtered set
orders_rowcount(fdf) == Len(fdf)

\* src/app.py:120: int(fdf["order_id"].nunique()) if not fdf.empty else 0; nunique
\* leaves missing identifiers out
orders_kpi(fdf) ==
    IF fdf # <<>>
    THEN Cardinality({fdf[i].order_id : i \in 1..Len(fdf)} \ {NONE})
    ELSE 0

\* src/app.py:121: total_rev / orders if orders else 0.0; the quotient is kept
\* as the pair it is made of
ZeroAov == [num |-> 0, den |-> 1]
aov_kpi(total_rev, orders) ==
    IF orders # 0 THEN [num |-> total_rev, den |-> orders] ELSE ZeroAov

\* src/app.py:123: the label of no top product, the em dash (U+2014)
Dash == "--"

\* src/app.py:122: fdf.groupby("product")["revenue"].sum()
product_revenue(fdf, p) ==
    revenue_sum(SelectRows(fdf, {i \in 1..Len(fdf) : fdf[i].product = p}))

\* src/app.py:122-124: the first of the groups sorted by revenue, descending; the
\* order of equal sums is the sort's choice
top_products(fdf) ==
    IF product_options(fdf) = {}
    THEN {[name |-> Dash, rev |-> 0]}
    ELSE {[name |-> p, rev |-> product_revenue(fdf, p)] :
            p \in {q \in product_options(fdf) :
                     \A o \in product_options(fdf) :
                        product_revenue(fdf, o) <= product_revenue(fdf, q)}}

\* the widgets' values and the results of a run
NoSales ==
    [up |-> NoFile, rendered |-> "none", stage |-> "none", min_d |-> 0, max_d |-> 0,
     date_range |-> <<>>, range_choice |-> "All",
     prod_opts |-> {}, chan_opts |-> {}, prod_sel |-> {}, chan_sel |-> {},
     start_d |-> 0, end_d |-> 0, fdf |-> <<>>,
     total_rev |-> 0, orders |-> 0, aov |-> ZeroAov,
     top_product_name |-> "", top_product_rev |-> 0]

\* a widget keeps its value from one run to the next when the previous run
\* drew it with the same arguments; otherwise it shows its default
\* (src/app.py:82, 89, 94-97)
NoPick == [widget |-> "none"]
widget_values(prev, pick, df) ==
    LET lo == min_date(df)
        hi == max_date(df)
        po == product_options(df)
        co == channel_options(df)
    IN  [min_d |-> lo, max_d |-> hi, prod_opts |-> po, chan_opts |-> co,
         date_range |->
            IF pick.widget = "date" THEN pick.value
            ELSE IF prev.rendered # "none" /\ prev.min_d = lo /\ prev.max_d = hi
                 THEN prev.date_range ELSE <<lo, hi>>,
         range_choice |->
            IF pick.widget = "range" THEN pick.value
            ELSE IF prev.rendered = "all" THEN prev.range_choice ELSE "All",
         prod_sel |->
            IF pick.widget = "products" THEN pick.value
            ELSE IF prev.rendered = "all" /\ prev.prod_opts = po
                 THEN prev.prod_sel ELSE po,
         chan_sel |->
            IF pick.widget = "channels" THEN pick.value
            ELSE IF prev.rendered = "all" /\ prev.chan_opts = co
                 THEN prev.chan_sel ELSE co]

\* src/app.py:50-124: one run of the script; the set of states it can end in
script(prev, up, pick, canon, now) ==
    LET src == source_data(up, canon)
        df == ensure_order_id(src.cols, src.df)
        w == widget_values(prev, pick, df)
        start_d == preset_start(range_start(w.date_range), w.range_choice, now)
        end_d == range_end(w.date_range)
        fdf == filter_sales(df, start_d, end_d, w.prod_sel, w.chan_sel)
    IN  IF ~src.ok
        THEN {[NoSales EXCEPT !.up = up, !.stage = "stopped"]}
        ELSE IF range_raises(w.date_range)
        THEN {[NoSales EXCEPT !.up = up, !.stage = "raised", !.rendered = "date",
                              !.min_d = w.min_d, !.max_d = w.max_d,
                              !.date_range = w.date_range]}
        ELSE {[up |-> up, rendered |-> "all", stage |-> "done",
               min_d |-> w.min_d, max_d |-> w.max_d,
               date_range |-> w.date_range, range_choice |-> w.range_choice,
               prod_opts |-> w.prod_opts, chan_opts |-> w.chan_opts,
               prod_sel |-> w.prod_sel, chan_sel |-> w.chan_sel,
               start_d |-> start_d, end_d |-> end_d, fdf |-> fdf,
               total_rev |-> total_rev_kpi(fdf), orders |-> orders_kpi(fdf),
               aov |-> aov_kpi(total_rev_kpi(fdf), orders_kpi(fdf)),
               top_product_name |-> top.name, top_product_rev |-> top.rev] :
                 top \in top_products(fdf)}


(***************************************************************************)
(* main (app.py:172-197): one interaction of session "A", from the widget  *)
(* event that starts the rerun to the end of the script.                   *)
(***************************************************************************)
NoRun ==
    [input |-> <<>>, input_after |-> <<>>, after_rules |-> <<>>, raised |-> FALSE,
     trained |-> FALSE, model_set |-> FALSE, model |-> NoModel, saved |-> FALSE, out |-> <<>>]

\* the history of an interaction: the event, whether add_rule was called, the
\* error shown, whether the reports were rendered to the end, the last call of
\* the pipeline (run; ran: there was one), and of the merge of "Apply edits":
\* the table before it (base), dff.index, the editor's table, the table handed
\* to the pipeline (merged: the merge did not raise); model_before: the
\* session's model when the interaction began
NoInteraction ==
    [kind |-> "start", add_rule |-> FALSE, error |-> "none", rendered |-> FALSE,
     run |-> NoRun, merged |-> FALSE, base |-> <<>>, index |-> <<>>, edited |-> <<>>,
     handed |-> <<>>, model_before |-> NoModel]

Seeds ==
    { EmptyTable,
      << [date |-> 1, description |-> "UBER TRIP 9Q8W2", category |-> "Transport"],
         [date |-> 1, description |-> "ACME PAYROLL", category |-> "Income"] >> }

\* the model file after a call of the pipeline
after_save(file, h) == IF h.saved THEN h.model ELSE file

\* st.session_state.model after a call of the pipeline
after_run(mdl, h) == IF h.model_set THEN h.model ELSE mdl

\* load_failed with the working table reset
load_failed_resets(tx, mdl) == [transactions |-> EmptyTable, model |-> mdl]

\* app.py:185-187: load_csv raised: st.error and return; the session's table
\* and model stay what they are
load_failed(tx, mdl) == [transactions |-> tx, model |-> mdl]

main(kind, file, rule_cat, rule_kw, range) ==
    LET \* sidebar_controls (app.py:80-104)
        pressed == kind = "add_rule" /\ rule_cat # "" /\ rule_kw # ""
        category == strip(rule_cat)
        pattern == strip(rule_kw)
        adding == pressed /\ category # "" /\ pattern # ""
        eng0 == engines["A"]
        defs1 == IF adding THEN add_rule_defaults(default_rules, eng0.rules, category, pattern)
                 ELSE default_rules
        rules1 == IF adding THEN add_rule_rules(default_rules, eng0.rules, category, pattern)
                  ELSE eng0.rules
        eng1 == IF adding
                THEN [made |-> TRUE, rules |-> rules1, compiled_rules |-> compile(defs1, rules1)]
                ELSE eng0
        up1 == CASE kind = "upload" -> file
                 [] kind = "clear" -> NoUpload
                 [] OTHER -> uploaded
        rec == [NoInteraction EXCEPT !.kind = kind, !.add_rule = pressed,
                                     !.model_before = model]
        \* the session state and the history at the end of the interaction
        End(tx, mdl, mfile, r) ==
            /\ transactions' = tx
            /\ model' = mdl
            /\ model_file' = mfile
            /\ last' = r
    IN  /\ default_rules' = defs1
        /\ engines' = [engines EXCEPT !["A"] = eng1]
        /\ rules_file' = IF adding THEN save_rules(defs1, rules1) ELSE rules_file
        /\ uploaded' = up1
        /\ UNCHANGED <<seed, last_rule, adds, svars, nvars>>
        /\ IF up1 # NoUpload /\ load_csv_raises(up1)
           THEN \* app.py:185-187: st.error, return
                LET st == load_failed(transactions, model)
                IN  End(st.transactions, st.model, model_file, [rec EXCEPT !.error = "load"])
           ELSE LET df == IF up1 # NoUpload THEN load_csv(up1) ELSE transactions
                    \* the session's table when main's call of the pipeline raises
                    tx0(h) == IF up1 = NoUpload THEN h.input_after ELSE transactions
                IN  IF df = EmptyTable
                    THEN \* app.py:197
                         End(transactions, model, model_file, rec)
                    ELSE \E h1 \in apply_hybrid_categorization(df, seed, eng1) :
                           IF h1.raised
                           THEN End(tx0(h1), model, model_file,
                                    [rec EXCEPT !.error = "train", !.run = h1])
                           ELSE IF kind # "apply"
                           THEN End(h1.out, after_run(model, h1), after_save(model_file, h1),
                                    [rec EXCEPT !.run = h1, !.rendered = TRUE])
                           ELSE \* render_reports, the button pressed (app.py:161-166)
                                LET index == filter_index(h1.out, range)
                                IN  \E edited \in EditedTables(editable(h1.out, index)) :
                                      LET m == merge_edits(h1.out, index,
                                                   [k \in 1..Len(edited) |-> edited[k].category])
                                          rec1 == [rec EXCEPT !.run = h1, !.base = h1.out,
                                                              !.index = index, !.edited = edited]
                                          mf1 == after_save(model_file, h1)
                                          mdl1 == after_run(model, h1)
                                      IN
                                      IF m.raised
                                      THEN End(h1.out, mdl1, mf1, [rec1 EXCEPT !.error = "merge"])
                                      ELSE \E h2 \in apply_hybrid_categorization(m.df_update, seed, eng1) :
                                             LET rec2 == [rec1 EXCEPT !.merged = TRUE,
                                                                      !.handed = h2.input_after,
                                                                      !.run = h2]
                                             IN
                                             IF h2.raised
                                             THEN End(h1.out, mdl1, mf1,
                                                      [rec2 EXCEPT !.error = "train"])
                                             ELSE End(h2.out, after_run(mdl1, h2), after_save(mf1, h2),
                                                      [rec2 EXCEPT !.rendered = TRUE])

AnyRange == [start |-> 1, end |-> 1]

\* a widget other than the ones below changes (a date, a cell of the editor)
Rerun == engines["A"].made /\ main("rerun", NoUpload, "", "", AnyRange)

\* a file is dropped on the file_uploader
Upload(file) == engines["A"].made /\ main("upload", file, "", "", AnyRange)

\* the file is removed from the file_uploader
ClearUpload == uploaded # NoUpload /\ main("clear", NoUpload, "", "", AnyRange)

\* "Add rule" is pressed with the two text inputs as they are
PressAddRule(rule_cat, rule_kw) ==
    engines["A"].made /\ main("add_rule", NoUpload, rule_cat, rule_kw, AnyRange)

\* "Apply edits and re-train model" is pressed: the button exists when the
\* last run rendered the reports
PressApply(range) == last.rendered /\ main("apply", NoUpload, "", "", range)

AppRuleCategoryInputs == {"Pets", " ", ""}
AppRulePatternInputs == {"petco"}

AppInit ==
    /\ default_rules = PristineDefaults
    /\ rules_file = AbsentFile
    /\ engines = [s \in Sessions |->
                    IF s = "A" THEN RuleEngine(PristineDefaults, AbsentFile) ELSE NoEngine]
    /\ last_rule = NoRuleOp
    /\ adds = 0
    /\ transactions = EmptyTable
    /\ model = NoModel
    /\ model_file = NoModel
    /\ seed \in Seeds
    /\ uploaded = NoUpload
    /\ last = NoInteraction
    /\ canonical = <<>>
    /\ today = 0
    /\ sales = NoSales
    /\ raw = NoRawRow
    /\ normalized = NotNormalized

AppNext ==
    \/ Rerun
    \/ \E f \in UploadNames : Upload(f)
    \/ ClearUpload
    \/ \E c \in AppRuleCategoryInputs, k \in AppRulePatternInputs : PressAddRule(c, k)
    \/ \E r \in FilterInputs : PressApply(r)

AppSpec == AppInit /\ [][AppNext]_vars

(***************************************************************************)
(* Specification Spec: Rule Engines of several sessions of one process,    *)
(* one overlay file; the process may be restarted.                         *)
(***************************************************************************)
\* overlay files found at start-up: none, not JSON / not a mapping, mappings
InitialFiles ==
    {AbsentFile, MalformedFile,
     [kind |-> "dict", data |-> <<>>],
     [kind |-> "dict", data |-> <<[cat |-> "Pets", list |-> <<"petco">>]>>],
     [kind |-> "dict", data |-> <<[cat |-> "Transport", list |-> <<"acme">>]>>],
     [kind |-> "dict", data |-> <<[cat |-> "Pets", list |-> <<"shop">>],
                                  [cat |-> "Income", list |-> <<"acme", "\\bpayroll\\b">>]>>]}

RuleCategoryInputs == {" Pets ", "Transport", " "}
RulePatternInputs == {"petco ", "acme", "(", ""}

RulesInit ==
    /\ default_rules = PristineDefaults
    /\ rules_file \in InitialFiles
    /\ engines = [s \in Sessions |-> NoEngine]
    /\ last_rule = NoRuleOp
    /\ adds = 0
    /\ transactions = EmptyTable
    /\ model = NoModel
    /\ model_file = NoModel
    /\ seed = EmptyTable
    /\ uploaded = NoUpload
    /\ last = NoInteraction
    /\ canonical = <<>>
    /\ today = 0
    /\ sales = NoSales
    /\ raw = NoRawRow
    /\ normalized = NotNormalized

\* ensure_session_state (app.py:35-36): the session's RuleEngine()
NewEngine(s) ==
    /\ ~engines[s].made
    /\ engines' = [engines EXCEPT ![s] = RuleEngine(default_rules, rules_file)]
    /\ last_rule' = [op |-> "new", s |-> s, category |-> "", pattern |-> "", ignored |-> FALSE]
    /\ UNCHANGED <<default_rules, rules_file, adds>>

\* engine.add_rule(category, pattern) (rules.py:182-192)
AddRule(s, category_in, pattern_in) ==
    LET category == strip(category_in)
        pattern == strip(pattern_in)
        rules == engines[s].rules
        defs1 == add_rule_defaults(default_rules, rules, category, pattern)
        rules1 == add_rule_rules(default_rules, rules, category, pattern)
    IN  /\ engines[s].made
        /\ IF category = "" \/ pattern = ""
           THEN /\ UNCHANGED <<default_rules, rules_file, engines, adds>>
                /\ last_rule' = [op |-> "add", s |-> s, category |-> category,
                                 pattern |-> pattern, ignored |-> TRUE]
           ELSE /\ adds < MaxAdds
                /\ adds' = adds + 1
                /\ default_rules' = defs1
                /\ engines' = [engines EXCEPT ![s] =
                                 [made |-> TRUE, rules |-> rules1,
                                  compiled_rules |-> compile(defs1, rules1)]]
                /\ rules_file' = save_rules(defs1, rules1)
                /\ last_rule' = [op |-> "add", s |-> s, category |-> category,
                                 pattern |-> pattern, ignored |-> FALSE]

\* the process ends and starts again: the module is imported afresh, the
\* sessions are gone, the files stay
Restart ==
    /\ \E s \in Sessions : engines[s].made
    /\ default_rules' = PristineDefaults
    /\ engines' = [s \in Sessions |-> NoEngine]
    /\ last_rule' = [op |-> "restart", s |-> "", category |-> "", pattern |-> "", ignored |-> FALSE]
    /\ UNCHANGED <<rules_file, adds>>

RulesNext ==
    \/ \E s \in Sessions : NewEngine(s) /\ UNCHANGED <<avars, svars, nvars>>
    \/ \E s \in Sessions, c \in RuleCategoryInputs, p \in RulePatternInputs :
          AddRule(s, c, p) /\ UNCHANGED <<avars, svars, nvars>>
    \/ Restart /\ UNCHANGED <<avars, svars, nvars>>

Spec == RulesInit /\ [][RulesNext]_vars

(***************************************************************************)
(* Specification SalesSpec: the Sales Dashboard; each action is one        *)
(* interaction, that is one run of the script with one widget changed.     *)
(***************************************************************************)
SalesInit ==
    /\ default_rules = PristineDefaults
    /\ rules_file = AbsentFile
    /\ engines = [s \in Sessions |-> NoEngine]
    /\ last_rule = NoRuleOp
    /\ adds = 0
    /\ transactions = EmptyTable
    /\ model = NoModel
    /\ model_file = NoModel
    /\ seed = EmptyTable
    /\ uploaded = NoUpload
    /\ last = NoInteraction
    /\ canonical \in CanonicalFiles
    /\ today \in Todays
    /\ sales \in script(NoSales, NoFile, NoPick, canonical, today)
    /\ raw = NoRawRow
    /\ normalized = NotNormalized

\* the uploader gets a file, another file, or is cleared
ChooseUpload(f) ==
    /\ f # sales.up
    /\ sales' \in script(sales, f, NoPick, canonical, today)
    /\ UNCHANGED <<canonical, today>>

\* a click in the date range widget
PickDates(dr) ==
    /\ sales.rendered # "none"
    /\ sales' \in script(sales, sales.up, [widget |-> "date", value |-> dr], canonical, today)
    /\ UNCHANGED <<canonical, today>>

PickQuickRange(c) ==
    /\ sales.rendered = "all"
    /\ sales' \in script(sales, sales.up, [widget |-> "range", value |-> c], canonical, today)
    /\ UNCHANGED <<canonical, today>>

PickProducts(ps) ==
    /\ sales.rendered = "all"
    /\ ps \subseteq sales.prod_opts
    /\ sales' \in script(sales, sales.up, [widget |-> "products", value |-> ps], canonical, today)
    /\ UNCHANGED <<canonical, today>>

PickChannels(cs) ==
    /\ sales.rendered = "all"
    /\ cs \subseteq sales.chan_opts
    /\ sales' \in script(sales, sales.up, [widget |-> "channels", value |-> cs], canonical, today)
    /\ UNCHANGED <<canonical, today>>

AllProducts == {"Basic", "Pro"}
AllChannels == {"Online", "Phone"}

SalesNext ==
    \/ \E f \in SalesUploadNames \cup {NoFile} : ChooseUpload(f) /\ UNCHANGED <<rvars, avars, nvars>>
    \/ \E dr \in DateInputs(sales.min_d, sales.max_d) : PickDates(dr) /\ UNCHANGED <<rvars, avars, nvars>>
    \/ \E c \in RangeChoices : PickQuickRange(c) /\ UNCHANGED <<rvars, avars, nvars>>
    \/ \E ps \in SUBSET AllProducts : PickProducts(ps) /\ UNCHANGED <<rvars, avars, nvars>>
    \/ \E cs \in SUBSET AllChannels : PickChannels(cs) /\ UNCHANGED <<rvars, avars, nvars>>

SalesSpec == SalesInit /\ [][SalesNext]_vars

(***************************************************************************)
(* Specification AmountSpec: normalize_dataframe on one row of a file,     *)
(* for the amount it gives the row.                                        *)
(***************************************************************************)
AmountInit ==
    /\ default_rules = PristineDefaults
    /\ rules_file = AbsentFile
    /\ engines = [s \in Sessions |-> NoEngine]
    /\ last_rule = NoRuleOp
    /\ adds = 0
    /\ transactions = EmptyTable
    /\ model = NoModel
    /\ model_file = NoModel
    /\ seed = EmptyTable
    /\ uploaded = NoUpload
    /\ last = NoInteraction
    /\ canonical = <<>>
    /\ today = 0
    /\ sales = NoSales
    /\ \E columns \in SUBSET Headers :
          \E row \in RawRows(columns) : raw = [columns |-> columns, row |-> row]
    /\ normalized = NotNormalized

\* normalize_dataframe(raw_df)
Normalize ==
    /\ ~normalized.done
    /\ normalized' = normalize_amount(raw.columns, raw.row)
    /\ UNCHANGED raw

AmountNext == Normalize /\ UNCHANGED <<rvars, avars, svars>>

AmountSpec == AmountInit /\ [][AmountNext]_vars

(***************************************************************************)
(* Claims about the Rule Engine, checked under Spec                        *)
(***************************************************************************)
\* a Rule Engine built by a fresh process (pristine DEFAULT_RULES) from the
\* overlay file as it is now
FreshEngine == RuleEngine(PristineDefaults, rules_file)

\* the only compiled rule of engine that matches description is (pattern, category)
MatchedOnlyBy(engine, description, pattern, category) ==
    LET cr == engine.compiled_rules
        text == normalize_text(description)
    IN  /\ text # ""
        /\ \E i \in 1..Len(cr) : cr[i].pattern = pattern /\ search(pattern, text)
        /\ \A i \in 1..Len(cr) :
              search(cr[i].pattern, text) => cr[i].pattern = pattern /\ cr[i].category = category

\* the last operation was add_rule(category, pattern), both non-empty after
\* trimming, the pattern a valid regular expression
AddedValidRule ==
    last_rule.op = "add" /\ ~last_rule.ignored /\ compiles(last_rule.pattern)

\* C1: after add_rule(category, pattern), for a new or a built-in category, an
\* engine constructed from the pristine defaults and the same overlay file has
\* the pattern in its list for the category and categorizes a description
\* matched only by that pattern as the category.
C1_RoundTrip ==
    AddedValidRule =>
        LET view == RulesView(PristineDefaults, FreshEngine.rules)
        IN  /\ last_rule.category \in DOMAIN view
            /\ last_rule.pattern \in Range(view[last_rule.category])
            /\ \A d \in Descriptions :
                  MatchedOnlyBy(FreshEngine, d, last_rule.pattern, last_rule.category)
                      => categorize(FreshEngine, d) = last_rule.category

\* C2: in every constructed engine every built-in pattern of every built-in
\* category is in the engine's list for that category, whatever the overlay
\* file held when the engine loaded it.
C2_DefaultsAlwaysPresent ==
    \A s \in Sessions :
        engines[s].made =>
            \A c \in DefaultCats :
                /\ c \in Keys(engines[s].rules)
                /\ Range(PristineDefaults[c])
                      \subseteq Range(RulesView(default_rules, engines[s].rules)[c])

\* C7: an add_rule call of one session changes neither the rule lists of another
\* session's engine nor the built-in default table.
C7_SessionIsolation ==
    [][ last_rule'.op = "add" =>
            /\ default_rules' = default_rules
            /\ \A t \in Sessions \ {last_rule'.s} :
                  engines[t].made =>
                      RulesView(default_rules', engines'[t].rules)
                          = RulesView(default_rules, engines[t].rules) ]_rvars

(***************************************************************************)
(* Claims about the Expense Tracker, checked under AppSpec.  last.run is   *)
(* the last call of apply_hybrid_categorization of the last interaction.   *)
(***************************************************************************)
Ran == last.run # NoRun
Returned == Ran /\ ~last.run.raised
Rows == 1..Len(last.run.input)

\* the category the session's Rule Engine gives row i of the pipeline's input
RuleCategory(i) == categorize(engines["A"], last.run.input[i].description)

\* C3: every row whose category before the pipeline is absent or an empty
\* string, and whose description the Rule Engine matches, has the engine's
\* category after the rule step.
C3_RuleStepFillsUncategorized ==
    Ran => \A i \in Rows :
              (last.run.input[i].category \in {NONE, ""} /\ RuleCategory(i) # NONE)
                  => last.run.after_rules[i].category = RuleCategory(i)

\* C4 as stated: every row whose category is present and non-empty before the
\* pipeline has the same category in the returned table, and the input table
\* is not modified.
C4_ExplicitNeverOverwritten ==
    Returned =>
        /\ Len(last.run.out) = Len(last.run.input)
        /\ \A i \in Rows :
              last.run.input[i].category \notin {NONE, ""}
                  => last.run.out[i].category = last.run.input[i].category
        /\ last.run.input_after = last.run.input

\* C4 amended: every row whose category is present and not blank (non-empty
\* after trimming whitespace) before the pipeline has the same category in the
\* returned table, whether or not a rule matches it and whether or not the
\* model is retrained; the input table is not modified.
C4_NonBlankNeverOverwritten ==
    Returned =>
        /\ Len(last.run.out) = Len(last.run.input)
        /\ \A i \in Rows :
              (last.run.input[i].category # NONE /\ strip(last.run.input[i].category) # "")
                  => last.run.out[i].category = last.run.input[i].category
        /\ last.run.input_after = last.run.input

\* C4's case: the model was retrained and predicted for some row, and a rule
\* gives another category than the explicit one of a row
C4_Witness ==
    /\ Returned /\ last.run.trained
    /\ \E i \in Rows :
          /\ last.run.input[i].category # NONE /\ strip(last.run.input[i].category) # ""
          /\ RuleCategory(i) \notin {NONE, last.run.input[i].category}
    /\ \E j \in Rows :
          last.run.input[j].category = NONE /\ RuleCategory(j) = NONE
              /\ last.run.out[j].category # NONE

\* the categories of the labeled set of the last call: seed rows and rows of
\* the table after the rule step that have a category and a description
LabeledCategories ==
    {seed[i].category : i \in {j \in 1..Len(seed) :
                                  seed[j].category # NONE /\ seed[j].description # NONE}}
    \cup {last.run.after_rules[i].category :
            i \in {j \in Rows : /\ last.run.after_rules[j].category # NONE
                                /\ last.run.after_rules[j].description # NONE}}

\* C5: when the labeled set is empty or has fewer than 2 distinct categories,
\* no model is trained or saved, the session's model is absent after the run
\* and every category of the returned table is the row's original one or the
\* Rule Engine's.
C5_NoTrainingBelowTwoCategories ==
    (Ran /\ Cardinality(LabeledCategories) < 2) =>
        /\ ~last.run.raised /\ ~last.run.trained /\ ~last.run.saved
        /\ model = NoModel
        /\ Len(last.run.out) = Len(last.run.input)
        /\ \A i \in Rows :
              last.run.out[i].category \in {last.run.input[i].category, RuleCategory(i)}

\* C5's case: such a run in a session that held a model, with a row the rules filled
C5_Witness ==
    /\ Ran /\ Cardinality(LabeledCategories) < 2
    /\ last.model_before = FittedModel
    /\ \E i \in Rows : last.run.input[i].category = NONE /\ last.run.out[i].category # NONE

ExpectedUpdate ==
    [i \in 1..Len(last.base) |->
        IF (\E k \in 1..Len(last.index) : last.index[k] = i)
              /\ (\E k \in 1..Len(last.edited) : last.edited[k].idx = i)
        THEN [last.base[i] EXCEPT !.category =
                 last.edited[CHOOSE k \in 1..Len(last.edited) : last.edited[k].idx = i].category]
        ELSE last.base[i]]

\* C8: when "Apply edits and re-train model" is pressed, the pipeline is handed
\* the working table with the category of each filtered row replaced by that
\* row's edited category, all else unchanged, and its result becomes the
\* working table; for every range and every edit, added or removed rows too.
C8_EditMerge ==
    (last.kind = "apply" /\ last.base # <<>>) =>
        /\ last.merged
        /\ last.handed = ExpectedUpdate
        /\ (last.error = "none" => transactions = last.run.out)

(***************************************************************************)
(* Claims about the Sales Dashboard, checked under SalesSpec.              *)
(***************************************************************************)
\* C9: the date range the filter is applied with is always ordered (start
\* <= end, the two swapped if need be), and a single selected date gives
\* start = end = that date
C9_DateRangeOrdered ==
    /\ sales.stage = "done" => sales.start_d <= sales.end_d
    /\ (sales.rendered # "none" /\ Len(sales.date_range) = 1) =>
          /\ sales.stage = "done"
          /\ sales.start_d = sales.date_range[1]
          /\ sales.end_d = sales.date_range[1]

\* the rows of the filtered set at the positions S, their revenues added up
RECURSIVE RevenueAt(_)
RevenueAt(S) ==
    IF S = {} THEN 0
    ELSE LET i == CHOOSE j \in S : TRUE
         IN  sales.fdf[i].revenue + RevenueAt(S \ {i})
FilteredRows == 1..Len(sales.fdf)
RowsOfProduct(p) == {i \in FilteredRows : sales.fdf[i].product = p}
OrderIds == {sales.fdf[i].order_id : i \in FilteredRows} \ {NONE}

\* C10: over the filtered set, total revenue is the sum of revenue, the order
\* count is the number of distinct order identifiers, the average order value
\* is total revenue over order count and 0 without a division when the count
\* is 0, the top product is the one with the highest summed revenue; for an
\* empty filtered set the results are 0, 0, 0 and the dash label with revenue 0
C10_SalesKpis ==
    sales.stage = "done" =>
        /\ sales.total_rev = RevenueAt(FilteredRows)
        /\ sales.orders = Cardinality(OrderIds)
        /\ sales.orders # 0 =>
              sales.aov = [num |-> RevenueAt(FilteredRows), den |-> Cardinality(OrderIds)]
        /\ sales.orders = 0 => sales.aov = ZeroAov
        /\ FilteredRows # {} =>
              /\ RowsOfProduct(sales.top_product_name) # {}
              /\ sales.top_product_rev = RevenueAt(RowsOfProduct(sales.top_product_name))
              /\ \A i \in FilteredRows :
                    RevenueAt(RowsOfProduct(sales.fdf[i].product)) <= sales.top_product_rev
        /\ FilteredRows = {} =>
              /\ sales.total_rev = 0 /\ sales.orders = 0 /\ sales.aov = ZeroAov
              /\ sales.top_product_name = Dash /\ sales.top_product_rev = 0

\* a run over a filtered set in which two rows share an order identifier and
\* one has none, with two products
C10_Witness ==
    /\ sales.stage = "done"
    /\ Len(sales.fdf) = 3
    /\ Cardinality(OrderIds) = 1
    /\ Cardinality({sales.fdf[i].product : i \in FilteredRows}) = 2
    /\ sales.aov = [num |-> 120, den |-> 1]

(***************************************************************************)
(* Claims about the normalized amount, checked under AmountSpec.           *)
(***************************************************************************)
\* the number in a cell, 0 for a cell that is missing or no number
NumberOrZero(cell) == IF cell.kind = "num" THEN cell.v ELSE 0
Resolved == canonicalize_columns(raw.columns)
SideOrZero(column) == IF column = NONE THEN 0 ELSE NumberOrZero(raw.row[column])

\* the derived amount as C11 states it
ExpectedDerived ==
    IF Resolved.amount # NONE THEN NumberOrZero(raw.row[Resolved.amount])
    ELSE IF Resolved.debit # NONE \/ Resolved.credit # NONE
         THEN SideOrZero(Resolved.credit) - SideOrZero(Resolved.debit)
         ELSE 0

\* the lowered type text of the row, empty without a type
LoweredType ==
    IF Resolved.type = NONE \/ raw.row[Resolved.type].kind # "text" THEN <<>>
    ELSE lower(raw.row[Resolved.type].text)
ForcedNegative ==
    \E w \in {<<"d", "e", "b", "i", "t">>, <<"w", "i", "t", "h", "d", "r", "a", "w">>,
              <<"p", "u", "r", "c", "h", "a", "s", "e">>} : contains(LoweredType, w)
ForcedPositive ==
    \E w \in {<<"c", "r", "e", "d", "i", "t">>, <<"d", "e", "p", "o", "s", "i", "t">>,
              <<"i", "n", "c", "o", "m", "e">>, <<"r", "e", "f", "u", "n", "d">>} :
        contains(LoweredType, w)
ExpectedAmount ==
    IF ForcedNegative THEN -abs(ExpectedDerived)
    ELSE IF ForcedPositive THEN abs(ExpectedDerived)
    ELSE ExpectedDerived

\* C11: every input row is given an amount: the amount column when one
\* resolves (no number as 0), otherwise credit minus debit with a missing
\* side or no number as 0, otherwise 0; made negative when the lowered type
\* contains debit, withdraw or purchase, else positive when it contains
\* credit, deposit, income or refund, else left as derived
C11_NormalizedAmount ==
    normalized.done => (~normalized.raised /\ normalized.amount = ExpectedAmount)

(***************************************************************************)
(* Further claims about the Rule Engine, checked under Spec.               *)
(***************************************************************************)
\* pattern is one of the built-in patterns of category
BuiltIn(category, pattern) ==
    category \in DefaultCats /\ pattern \in Range(PristineDefaults[category])

\* the (category, pattern) entries of the overlay file
OverlayEntries ==
    IF rules_file.kind # "dict" THEN {}
    ELSE UNION {{<<rules_file.data[i].cat, rules_file.data[i].list[k]>> :
                    k \in 1..Len(rules_file.data[i].list)} : i \in 1..Len(rules_file.data)}

RuleSetOrder(engine) ==
    Concat([i \in 1..Len(engine.rules) |->
              LET l == ListOf(default_rules, engine.rules[i])
              IN  [j \in 1..Len(l) |-> [pattern |-> l[j], category |-> engine.rules[i].cat]]])

\* the category C13 gives a non-empty normalized text: that of the matching
\* compiled pattern with the longest source, the first in rule-set order
\* among equals
LongestFirstMatch(engine, text) ==
    LET rs == RuleSetOrder(engine)
        cr == engine.compiled_rules
        hits == {i \in 1..Len(rs) : /\ \E k \in 1..Len(cr) : cr[k] = rs[i]
                                    /\ search(rs[i].pattern, text)}
        best == {i \in hits : \A j \in hits : Len(rs[j].pattern) <= Len(rs[i].pattern)}
    IN  IF hits = {} THEN NONE
        ELSE rs[CHOOSE i \in best : \A j \in best : i <= j].category

\* the compiled patterns of engine that match the description are all the
\* pattern shared by Transport and Utilities
MatchedOnlyByGas(engine, description) ==
    LET cr == engine.compiled_rules
        text == normalize_text(description)
    IN  /\ text # ""
        /\ \E i \in 1..Len(cr) : search(cr[i].pattern, text)
        /\ \A i \in 1..Len(cr) : search(cr[i].pattern, text) => cr[i].pattern = "\\bgas\\b"

\* C13: categorize gives no match for a description that normalizes to the
\* empty text, else the category of the longest matching pattern, the first
\* in rule-set order among equally long ones, else no match; so a description
\* matched only by the pattern Transport and Utilities share is Transport and
\* "UBER TRIP 9Q8W2" is Transport
C13_MatchingOrder ==
    \A s \in Sessions : engines[s].made =>
        \A d \in Descriptions :
            LET got == categorize(engines[s], d)
            IN  /\ normalize_text(d) = "" => got = NONE
                /\ normalize_text(d) # "" => got = LongestFirstMatch(engines[s], normalize_text(d))
                /\ MatchedOnlyByGas(engines[s], d) => got = "Transport"
                /\ d = "UBER TRIP 9Q8W2" => got = "Transport"

\* the custom entries of an engine: the (category, pattern) pairs of its rule
\* set that are no built-in pattern of the category
CustomEntries(engine) ==
    LET view == RulesView(default_rules, engine.rules)
    IN  UNION {{<<c, view[c][k]>> : k \in {j \in 1..Len(view[c]) : ~BuiltIn(c, view[c][j])}} :
                 c \in DOMAIN view}

\* C14: with the engines of two sessions on one overlay file, after an
\* add_rule call the file holds exactly the custom patterns of the caller's
\* engine, whatever the other session had added to the file before
C14_LastWriterWins ==
    (/\ last_rule.op = "add" /\ ~last_rule.ignored
     /\ \A s \in Sessions : engines[s].made) =>
        OverlayEntries = CustomEntries(engines[last_rule.s])

(***************************************************************************)
(* Further claims about the Expense Tracker, checked under AppSpec.        *)
(***************************************************************************)
\* the last interaction was "Apply edits and re-train model", the editor held
\* the label c for row i in place of the row's category, and the working table
\* stored holds c for row i
StoredCorrection(i, c) ==
    /\ last.kind = "apply" /\ last.merged /\ last.error = "none"
    /\ c \notin {NONE, "", " "}
    /\ i \in 1..Len(last.base) /\ last.base[i].category # c
    /\ \E k \in 1..Len(last.edited) : last.edited[k].idx = i /\ last.edited[k].category = c
    /\ i \in 1..Len(transactions) /\ transactions[i].category = c

\* C15: a corrected category that "Apply edits and re-train model" has stored
\* for a row is still the row's category in the working table at the end of
\* the next interaction that neither uploads a file nor applies edits, the
\* upload control still holding its file or not
C15_EditsSurvive ==
    [][ \A i \in 1..Len(transactions), c \in EditCategories :
          (StoredCorrection(i, c) /\ last'.kind \notin {"upload", "apply"}) =>
              (i \in 1..Len(transactions') /\ transactions'[i].category = c) ]_vars

====
